---- MODULE Spec2Model ----
(***************************************************************************)
(* Model of route-opt/cli.py: the running-dinner planner.  One run of the  *)
(* script is one behaviour: read the CSV, check divisibility, geocode,     *)
(* fill the distance matrix, build the MILP, solve it, decode the group    *)
(* view and the team view, print the JSON.  The MILP's 0/1 variables are   *)
(* modelled as the sets of keys whose value is 1; every constraint family  *)
(* of the script is one operator, and the solver returns any valuation     *)
(* that satisfies all of them (a minimal one when it reports Optimal).     *)
(***************************************************************************)
EXTENDS Integers, Sequences, FiniteSets, TLC

VARIABLES
    args,             \* argparse namespace (cli.py:172)
    csvfile,          \* content of the input file: header count and rows
    engine,           \* behaviour of the travel-time engine (routes, faults)
    pc,               \* position of the script
    data,             \* parsed team rows (cli.py:191-224)
    distance_matrix,  \* cli.py:234-289
    same_addr_team,   \* cli.py:295-300
    prob,             \* the LpProblem (cli.py:308), "none" before it exists
    solver_calls,     \* number of prob.solve calls (cli.py:600)
    status,           \* LpStatus[prob.status] (cli.py:602)
    sol,              \* values of the decision variables after the solve
    coursedata,       \* cli.py:621-643
    teamdata,         \* cli.py:648-725
    team_distances,   \* cli.py:647, 725
    stdout            \* the JSON printed on the real stdout (cli.py:751)

vars == <<args, csvfile, engine, pc, data, distance_matrix, same_addr_team,
          prob, solver_calls, status, sol, coursedata, teamdata,
          team_distances, stdout>>

\* Python's None; an optional value is None or a one-element tuple
None == <<>>
Some(v) == <<v>>

(***************************************************************************)
(* Bounds of the explored inputs.                                          *)
(***************************************************************************)
MaxTeams == 4
MaxDistance == 2
DurationSlack == 0
ScenarioDistance == 10

(***************************************************************************)
(* Program constants.                                                      *)
(***************************************************************************)
ForbiddenPref == -1000
SamePlace == 1
MeetLimit == 3
DefaultMinTravel == 1
MaxCourses == 3
BaseColumns == 4

(***************************************************************************)
(* Generic helpers.                                                        *)
(***************************************************************************)
Max2(a, b) == IF a >= b THEN a ELSE b

RECURSIVE SetSum(_, _)
\* sum of w[k] over the keys k of S
SetSum(w, S) ==
    IF S = {} THEN 0
    ELSE LET k == CHOOSE x \in S : TRUE IN w[k] + SetSum(w, S \ {k})

SetMax(S) == CHOOSE x \in S : \A y \in S : y <= x
SetMin(S) == CHOOSE x \in S : \A y \in S : x <= y

CeilDiv(a, b) == (a + b - 1) \div b

RECURSIVE Choices(_)
\* all functions f on DOMAIN F with f[x] \in F[x]
Choices(F) ==
    IF DOMAIN F = {} THEN {<<>>}
    ELSE LET d == CHOOSE x \in DOMAIN F : TRUE
             rest == Choices([x \in DOMAIN F \ {d} |-> F[x]])
         IN  { (d :> v) @@ r : v \in F[d], r \in rest }

RECURSIVE SortedSeq(_, _)
\* the elements of S in increasing order of key[x] (keys are distinct)
SortedSeq(S, key) ==
    IF S = {} THEN <<>>
    ELSE LET m == CHOOSE x \in S : \A y \in S : key[x] <= key[y]
         IN  <<m>> \o SortedSeq(S \ {m}, key)

\* itertools.combinations(seq, 2): the pairs <<seq[a], seq[b]>> with a < b
Combinations2(seq) ==
    { <<seq[q[1]], seq[q[2]]>> :
        q \in { r \in (1..Len(seq)) \X (1..Len(seq)) : r[1] < r[2] } }

\* value of a 0/1 variable: d is the set of keys whose variable is 1
Val(d, k) == IF k \in d THEN 1 ELSE 0

\* lpSum of the variables of d over the keys of keys
LpSum(d, keys) == Cardinality(d \cap keys)

(***************************************************************************)
(* The optimisation model.  p is the problem as the script has assembled   *)
(* it: p.teams, p.groups, p.courses (cli.py:182, 305-306), p.args, p.data, *)
(* p.distance_matrix, p.same_addr_team.  assignment and chef are sets of   *)
(* keys <<t, g, c>>, arc is a set of keys <<c, i, j, t, g>>, large_team a  *)
(* set of teams, maxDuration a number.                                     *)
(***************************************************************************)
LastCourse(p) == Cardinality(p.courses) - 1

Pref(p, t, c) == p.data[t].pref[c]

\* cli.py:341-345
max_pref(p) ==
    IF p.args.ignore_preferences THEN 0
    ELSE SetMax({ Pref(p, t, c) : t \in p.teams, c \in p.courses })

\* duration attached to an arc in the distance sums (cli.py:372-373, 505-506)
ArcCost(p, a) ==
    (IF a[1] = LastCourse(p) THEN p.distance_matrix.after[a[3]] ELSE 0)
    + p.distance_matrix.route[<<a[2], a[3], a[1]>>]

ArcsOfTeam(arc, t) == { a \in arc : a[4] = t }

\* weakened variant: only the arcs of the last course are summed
RoutedTime_LastOnly(p, arc, t) ==
    SetSum([a \in arc |-> ArcCost(p, a)],
           { a \in ArcsOfTeam(arc, t) : a[3] # a[2] /\ a[1] = LastCourse(p) })

\* the lpSum of cli.py:501-514 for team t
RoutedTime(p, arc, t) ==
    SetSum([a \in arc |-> ArcCost(p, a)],
           { a \in ArcsOfTeam(arc, t) : a[3] # a[2] })

\* cli.py:392-395
OneGroupPerTeam(p, assignment, t, c) ==
    LpSum(assignment, { <<t, g, c>> : g \in p.groups }) = 1

\* weakened variant: a group only has to be non-empty
GroupSize_NonEmpty(p, assignment, g, c) ==
    LpSum(assignment, { <<t, g, c>> : t \in p.teams }) >= 1

\* cli.py:397-400
GroupSize(p, assignment, g, c) ==
    LpSum(assignment, { <<t, g, c>> : t \in p.teams }) = Cardinality(p.courses)

\* weakened variant: only groups with the same index in both courses are compared
MeetOnce_SameGroupIndex(p, assignment, c1, c2) ==
    p.args.can_meet_again \/
    \A g1 \in p.groups :
        \A t1 \in p.teams, t2 \in p.teams :
            t1 < t2 =>
                Val(assignment, <<t1, g1, c1>>) + Val(assignment, <<t2, g1, c1>>)
                + Val(assignment, <<t1, g1, c2>>) + Val(assignment, <<t2, g1, c2>>)
                <= MeetLimit

\* weakened variant: only groups with different indices are compared
MeetOnce_DistinctGroups(p, assignment, c1, c2) ==
    p.args.can_meet_again \/
    \A g1 \in p.groups, g2 \in p.groups :
        \A t1 \in p.teams, t2 \in p.teams :
            (t1 < t2 /\ g1 # g2) =>
                Val(assignment, <<t1, g1, c1>>) + Val(assignment, <<t2, g1, c1>>)
                + Val(assignment, <<t1, g2, c2>>) + Val(assignment, <<t2, g2, c2>>)
                <= MeetLimit

\* cli.py:403-418, for one pair of courses c1 < c2
MeetOnce(p, assignment, c1, c2) ==
    p.args.can_meet_again \/
    \A g1 \in p.groups, g2 \in p.groups :
        \A t1 \in p.teams, t2 \in p.teams :
            t1 < t2 =>
                Val(assignment, <<t1, g1, c1>>) + Val(assignment, <<t2, g1, c1>>)
                + Val(assignment, <<t1, g2, c2>>) + Val(assignment, <<t2, g2, c2>>)
                <= MeetLimit

\* weakened variant: the sentinel itself is not forbidden
ForbiddenCourse_Strict(p, chef, t, c) ==
    (~p.args.ignore_preferences /\ Pref(p, t, c) < ForbiddenPref) =>
        \A g \in p.groups : Val(chef, <<t, g, c>>) = 0

\* cli.py:421-428
ForbiddenCourse(p, chef, t, c) ==
    (~p.args.ignore_preferences /\ Pref(p, t, c) <= ForbiddenPref) =>
        \A g \in p.groups : Val(chef, <<t, g, c>>) = 0

\* cli.py:431-434
OneChefPerGroup(p, chef, g, c) ==
    LpSum(chef, { <<t, g, c>> : t \in p.teams }) = 1

\* cli.py:437-439
ChefOnce(p, chef, t) ==
    LpSum(chef, { <<t, g, c>> : g \in p.groups, c \in p.courses }) = 1

\* weakened variant: the constraint is left out
ChefIfAssigned_Omitted(p, assignment, chef, t, g, c) == TRUE

\* cli.py:442-446
ChefIfAssigned(p, assignment, chef, t, g, c) ==
    Val(chef, <<t, g, c>>) <= Val(assignment, <<t, g, c>>)

\* cli.py:449-456
ArcIfAssigned(p, assignment, arc, t, g, c) ==
    LpSum(arc, { <<c, i, j, t, g>> : i \in p.teams, j \in p.teams })
        = Val(assignment, <<t, g, c>>)

\* weakened variant: the first arc may start anywhere
StartAtSelf_AnyOrigin(p, assignment, arc, t, g) ==
    LpSum(arc, { <<0, i, j, t, g>> : i \in p.teams, j \in p.teams })
        = Val(assignment, <<t, g, 0>>)

\* cli.py:465-471
StartAtSelf(p, assignment, arc, t, g) ==
    LpSum(arc, { <<0, t, j, t, g>> : j \in p.teams })
        = Val(assignment, <<t, g, 0>>)

\* cli.py:473-479
GoToChef(p, chef, arc, c, t, g, i, j) ==
    Val(arc, <<c, i, j, t, g>>) <= Val(chef, <<j, g, c>>)

\* cli.py:481-494, for a course c >= 1
LeaveIfEntering(p, arc, c, t, i) ==
    LpSum(arc, { <<c, i, j, t, g>> : j \in p.teams \ {i}, g \in p.groups })
        = LpSum(arc, { <<c - 1, r, i, t, g>> : r \in p.teams, g \in p.groups })

\* cli.py:497-516
MaxDist(p, arc, maxDuration, t) ==
    p.args.ignore_max_dist \/ RoutedTime(p, arc, t) <= maxDuration

\* cli.py:519-533
MinTravel(p, arc, t) ==
    SetSum([a \in arc |-> p.distance_matrix.route[<<a[2], a[3], a[1]>>]],
           { a \in ArcsOfTeam(arc, t) : a[3] # a[2] })
        >= p.args.min_travel

\* weakened variant: an arc of exactly the threshold is let through
NoShortHop_BelowOnly(p, arc, t, c, g, j, i) ==
    (~p.args.can_stay /\ i # j
        /\ p.distance_matrix.route[<<i, j, c>>] < SamePlace) =>
        Val(arc, <<c, i, j, t, g>>) = 0

\* cli.py:536-545
NoShortHop(p, arc, t, c, g, j, i) ==
    (~p.args.can_stay /\ i # j
        /\ p.distance_matrix.route[<<i, j, c>>] <= SamePlace) =>
        Val(arc, <<c, i, j, t, g>>) = 0

\* cli.py:548-551, for one pair <<t1, t2>> of itertools.combinations
CookIncompatible(p, assignment, chef, t1, t2, c, g) ==
    Val(assignment, <<t1, g, c>>) <= 1 - Val(chef, <<t2, g, c>>)

\* weakened variant: at most --large-teams teams are large
LargeTeams_AtMost(p, assignment, large_team) ==
    p.args.large_teams > 0 =>
        /\ Cardinality(large_team) <= p.args.large_teams
        /\ \A c \in p.courses, g \in p.groups :
             \A t1 \in p.teams, t2 \in p.teams :
                t1 # t2 =>
                    Val(assignment, <<t1, g, c>>) + Val(assignment, <<t2, g, c>>)
                    + Val(large_team, t1) + Val(large_team, t2) <= MeetLimit

\* cli.py:553-569
LargeTeams(p, assignment, large_team) ==
    p.args.large_teams > 0 =>
        /\ Cardinality(large_team) = p.args.large_teams
        /\ \A c \in p.courses, g \in p.groups :
             \A t1 \in p.teams, t2 \in p.teams :
                t1 # t2 =>
                    Val(assignment, <<t1, g, c>>) + Val(assignment, <<t2, g, c>>)
                    + Val(large_team, t1) + Val(large_team, t2) <= MeetLimit

\* weakened variant: the constraint is only added for three or more teams
SameAddress_FromThree(p, chef, addr, c) ==
    LET dup_teams == p.same_addr_team[addr] IN
    Len(dup_teams) > 2 =>
        LpSum(chef, { <<dup_teams[k], g, c>> : k \in 1..Len(dup_teams), g \in p.groups })
            <= Max2(1, CeilDiv(Len(dup_teams), Cardinality(p.courses)))

\* cli.py:572-579, for one address and one course
SameAddress(p, chef, addr, c) ==
    LET dup_teams == p.same_addr_team[addr] IN
    Len(dup_teams) > 1 =>
        LpSum(chef, { <<dup_teams[k], g, c>> : k \in 1..Len(dup_teams), g \in p.groups })
            <= Max2(1, CeilDiv(Len(dup_teams), Cardinality(p.courses)))

\* every constraint added to prob between cli.py:392 and cli.py:579
Feasible(p, x) ==
    /\ \A t \in p.teams, c \in p.courses : OneGroupPerTeam(p, x.assignment, t, c)
    /\ \A g \in p.groups, c \in p.courses : GroupSize(p, x.assignment, g, c)
    /\ \A c1 \in p.courses, c2 \in p.courses :
          c1 < c2 => MeetOnce(p, x.assignment, c1, c2)
    /\ \A t \in p.teams, c \in p.courses : ForbiddenCourse(p, x.chef, t, c)
    /\ \A g \in p.groups, c \in p.courses : OneChefPerGroup(p, x.chef, g, c)
    /\ \A t \in p.teams : ChefOnce(p, x.chef, t)
    /\ \A t \in p.teams, g \in p.groups, c \in p.courses :
          /\ ChefIfAssigned(p, x.assignment, x.chef, t, g, c)
          /\ ArcIfAssigned(p, x.assignment, x.arc, t, g, c)
    /\ \A t \in p.teams, g \in p.groups : StartAtSelf(p, x.assignment, x.arc, t, g)
    /\ \A c \in p.courses, t \in p.teams, g \in p.groups :
          \A i \in p.teams, j \in p.teams :
             /\ GoToChef(p, x.chef, x.arc, c, t, g, i, j)
             /\ NoShortHop(p, x.arc, t, c, g, j, i)
    /\ \A c \in p.courses \ {0}, t \in p.teams, i \in p.teams :
          LeaveIfEntering(p, x.arc, c, t, i)
    /\ \A t \in p.teams :
          /\ MaxDist(p, x.arc, x.maxDuration[1], t)
          /\ MinTravel(p, x.arc, t)
    /\ \A q \in Combinations2(p.args.cook_incompatible) :
          \A c \in p.courses, g \in p.groups :
             CookIncompatible(p, x.assignment, x.chef, q[1], q[2], c, g)
    /\ LargeTeams(p, x.assignment, x.large_team)
    /\ \A addr \in DOMAIN p.same_addr_team, c \in p.courses :
          SameAddress(p, x.chef, addr, c)


(***************************************************************************)
(* The solver (prob.solve, cli.py:600).  It enumerates the valuations of   *)
(* the variables family by family and keeps, at every stage, exactly the   *)
(* partial valuations that satisfy the constraints whose variables are     *)
(* all fixed at that stage.                                                *)
(***************************************************************************)

\* groups of team t in course c: any subset of the variables assignment[(t, ., c)]
TeamAssignments(p, t, c) ==
    { a \in SUBSET { <<t, g, c>> : g \in p.groups } : OneGroupPerTeam(p, a, t, c) }

\* assignments of one course
CourseAssignments(p, c) ==
    { a \in { UNION { f[t] : t \in p.teams } :
                f \in Choices([t \in p.teams |-> TeamAssignments(p, t, c)]) } :
        \A g \in p.groups : GroupSize(p, a, g, c) }

RECURSIVE AssignmentsUpTo(_, _)
\* assignments of the courses 0..c
AssignmentsUpTo(p, c) ==
    IF c = 0 THEN CourseAssignments(p, 0)
    ELSE LET prev == AssignmentsUpTo(p, c - 1) IN
         IF prev = {} THEN {}
         ELSE { a \in { q[1] \cup q[2] : q \in prev \X CourseAssignments(p, c) } :
                  \A c1 \in 0..(c - 1) : MeetOnce(p, a, c1, c) }

Assignments(p) == AssignmentsUpTo(p, LastCourse(p))

\* large_team variables exist only with --large-teams > 0 (cli.py:553-554)
LargeTeamSets(p, assignment) ==
    IF p.args.large_teams > 0
    THEN { l \in SUBSET p.teams : LargeTeams(p, assignment, l) }
    ELSE { {} }

\* chefs of one group in one course
GroupChefs(p, assignment, g, c) ==
    { ch \in SUBSET { <<t, g, c>> : t \in p.teams } :
        /\ OneChefPerGroup(p, ch, g, c)
        /\ \A t \in p.teams : ChefIfAssigned(p, assignment, ch, t, g, c) }

Chefs(p, assignment) ==
    { ch \in { UNION { f[s] : s \in DOMAIN f } :
                 f \in Choices([s \in p.groups \X p.courses |->
                                   GroupChefs(p, assignment, s[1], s[2])]) } :
        /\ \A t \in p.teams : ChefOnce(p, ch, t)
        /\ \A t \in p.teams, c \in p.courses : ForbiddenCourse(p, ch, t, c)
        /\ \A q \in Combinations2(p.args.cook_incompatible) :
              \A c \in p.courses, g \in p.groups :
                 CookIncompatible(p, assignment, ch, q[1], q[2], c, g)
        /\ \A addr \in DOMAIN p.same_addr_team, c \in p.courses :
              SameAddress(p, ch, addr, c) }

\* arcs of team t in group g and course c
SlotArcs(p, assignment, chef, t, g, c) ==
    { a \in SUBSET { k \in { <<c, i, j, t, g>> : i \in p.teams, j \in p.teams } :
                       /\ GoToChef(p, chef, {k}, c, t, g, k[2], k[3])
                       /\ NoShortHop(p, {k}, t, c, g, k[3], k[2]) } :
        ArcIfAssigned(p, assignment, a, t, g, c) }

\* arcs of team t over all groups and courses
TeamTours(p, assignment, chef, t) ==
    { a \in { UNION { f[s] : s \in DOMAIN f } :
                f \in Choices([s \in p.groups \X p.courses |->
                                  SlotArcs(p, assignment, chef, t, s[1], s[2])]) } :
        /\ \A g \in p.groups : StartAtSelf(p, assignment, a, t, g)
        /\ \A c \in p.courses \ {0}, i \in p.teams : LeaveIfEntering(p, a, c, t, i)
        /\ MinTravel(p, a, t) }

Arcs(p, assignment, chef) ==
    { UNION { f[t] : t \in p.teams } :
        f \in Choices([t \in p.teams |-> TeamTours(p, assignment, chef, t)]) }

\* largest value explored for the continuous variable maxDuration
DurationCap(p) ==
    Cardinality(p.courses)
        * SetMax({ p.distance_matrix.route[k] : k \in DOMAIN p.distance_matrix.route })
    + SetMax({ p.distance_matrix.after[t] : t \in p.teams })
    + DurationSlack

\* maxDuration is a variable of prob only when the objective uses it (cli.py:386)
Durations(p, arc) ==
    IF p.args.ignore_max_dist THEN { None }
    ELSE { Some(d) : d \in { e \in 0..DurationCap(p) :
                               \A t \in p.teams : MaxDist(p, arc, e, t) } }

\* the feasible region of prob
Solutions(p) ==
    LET parts ==
          UNION { UNION { { [assignment |-> a, chef |-> ch, arc |-> r,
                             large_team |-> l] :
                               r \in Arcs(p, a, ch), l \in LargeTeamSets(p, a) } :
                          ch \in Chefs(p, a) } :
                  a \in Assignments(p) }
        full == UNION { { [assignment |-> x.assignment, chef |-> x.chef,
                           arc |-> x.arc, large_team |-> x.large_team,
                           maxDuration |-> d] : d \in Durations(p, x.arc) } :
                        x \in parts }
    IN  { x \in full : Feasible(p, x) }

(***************************************************************************)
(* The objective (cli.py:348-389), multiplied by 10 * len(teams) * scale   *)
(* to stay in the integers; scale is max_pref, 1 when preferences are      *)
(* ignored.                                                                *)
(***************************************************************************)
PrefScale(p) == IF p.args.ignore_preferences THEN 1 ELSE max_pref(p)

\* weakened variant: every entry is summed, the forbidden ones included
preferences_AllEntries(p, x) ==
    IF p.args.ignore_preferences THEN 0
    ELSE SetSum([k \in x.chef |-> Pref(p, k[1], k[3])], x.chef)

\* cli.py:348-362, times PrefScale
preferences(p, x) ==
    IF p.args.ignore_preferences THEN 0
    ELSE SetSum([k \in x.chef |-> Pref(p, k[1], k[3])],
                { k \in x.chef : Pref(p, k[1], k[3]) > ForbiddenPref })

\* cli.py:365-383
distance_sum(p, x) ==
    IF p.args.ignore_avg_dist THEN 0
    ELSE SetSum([a \in x.arc |-> ArcCost(p, a)], { a \in x.arc : a[3] # a[2] })

\* cli.py:385-389
Objective(p, x) ==
    (IF p.args.ignore_max_dist THEN 0
     ELSE 10 * Cardinality(p.teams) * PrefScale(p) * x.maxDuration[1])
    + PrefScale(p) * distance_sum(p, x)
    - 200 * Cardinality(p.teams) * preferences(p, x)

\* the solutions of S with the least objective
Optimal(p, S) ==
    LET least == SetMin({ Objective(p, y) : y \in S })
    IN  { x \in S : Objective(p, x) = least }

(***************************************************************************)
(* Decoding of the variable values (cli.py:606-725).                       *)
(***************************************************************************)
Identity(S) == [x \in S |-> x]

\* one entry of the group view (cli.py:631-642)
GroupEntry(p, x, g, c) ==
    LET members == { t \in p.teams : <<t, g, c>> \in x.assignment }
        cooks == { t \in members : <<t, g, c>> \in x.chef }
    IN  [cook |-> IF cooks = {} THEN None ELSE Some(SetMax(cooks)),
         guests |-> SortedSeq(members \ cooks, Identity(members \ cooks))]

\* cli.py:628-643
GroupView(p, x) ==
    [c \in p.courses |-> [g \in p.groups |-> GroupEntry(p, x, g, c)]]

\* position of an arc in the loops of cli.py:664-667 (c, then i, then j, then g)
LoopOrder(p, a) ==
    ((a[1] * Cardinality(p.teams) + a[2]) * Cardinality(p.teams) + a[3])
        * Cardinality(p.groups) + a[5]

\* the arcs of team t with value 1, in the order the loops meet them
ActiveArcs(p, x, t) ==
    SortedSeq(ArcsOfTeam(x.arc, t),
              [a \in ArcsOfTeam(x.arc, t) |-> LoopOrder(p, a)])

\* one leg as printed and appended to the tour (cli.py:668-713)
Leg(p, x, a) ==
    [approx_duration |-> p.distance_matrix.route[<<a[2], a[3], a[1]>>],
     group |-> a[5], gang |-> a[1], from |-> a[2], to |-> a[3],
     cook |-> <<a[4], a[5], a[1]>> \in x.chef]

\* cli.py:650-659, 661-724 for team t
TeamEntry(p, x, t) ==
    LET legs == ActiveArcs(p, x, t)
        last == { k \in 1..Len(legs) : legs[k][1] = LastCourse(p) }
    IN  [idx |-> t,
         address |-> p.data[t].addr,
         tour |-> [k \in 1..Len(legs) |-> Leg(p, x, legs[k])],
         afterparty_duration |->
            IF last = {} THEN None
            ELSE Some(p.distance_matrix.after[legs[SetMax(last)][3]])]

\* cli.py:648-724
TeamView(p, x) == [t \in p.teams |-> TeamEntry(p, x, t)]

\* sumdistance of team t (cli.py:663, 715, 722-725)
SumDistance(p, x, t) ==
    LET mine == ArcsOfTeam(x.arc, t) IN
    SetSum([a \in mine |-> p.distance_matrix.route[<<a[2], a[3], a[1]>>]], mine)
    + SetSum([a \in mine |-> p.distance_matrix.after[a[3]]],
             { a \in mine : a[1] = LastCourse(p) })

TeamDistances(p, x) == [t \in p.teams |-> SumDistance(p, x, t)]

(***************************************************************************)
(* Inputs of a run: the command line, the CSV file and the answers of the  *)
(* travel-time engine.  A run is described by a team count, a course count *)
(* and a set of deviations from the default run.                           *)
(***************************************************************************)
Toggles == { "meet", "stay", "nopref", "asym", "noavg", "nomax", "large1",
             "large2", "travel0", "cook01", "cook10", "party", "sentinel",
             "sameaddr", "short", "near", "oneway", "graded",
             "geofail", "routefail", "partyfail" }

\* the default run, every single deviation, and the pairs that interact
ToggleSets ==
    { {} } \cup { {x} : x \in Toggles }
    \cup { {"meet", "cook01"}, {"meet", "cook10"}, {"meet", "large1"},
           {"meet", "large2"}, {"meet", "sameaddr"}, {"meet", "sentinel"},
           {"meet", "party"}, {"meet", "near"}, {"meet", "travel0"},
           {"sentinel", "nopref"}, {"short", "nopref"}, {"stay", "near"},
           {"stay", "sameaddr"}, {"party", "partyfail"}, {"party", "travel0"},
           {"asym", "oneway"}, {"asym", "routefail"}, {"nomax", "party"},
           {"sameaddr", "travel0"} }

\* the parsed command line (cli.py:55-180)
ArgsOf(K, T) ==
    [num_courses |-> K,
     can_meet_again |-> "meet" \in T,
     can_stay |-> "stay" \in T,
     ignore_preferences |-> "nopref" \in T,
     asymetric_distances |-> "asym" \in T,
     ignore_avg_dist |-> "noavg" \in T,
     ignore_max_dist |-> "nomax" \in T,
     large_teams |-> (IF "large1" \in T THEN 1 ELSE 0)
                     + (IF "large2" \in T THEN 2 ELSE 0),
     min_travel |-> IF "travel0" \in T THEN 0 ELSE DefaultMinTravel,
     cook_incompatible |->
         IF "cook01" \in T /\ "cook10" \in T THEN <<0, 1, 2>>
         ELSE IF "cook01" \in T THEN <<0, 1>>
         ELSE IF "cook10" \in T THEN <<1, 0>> ELSE <<>>,
     afterparty |-> "party" \in T]

\* the CSV file: addresses are numbers, preference columns are optional
CsvOf(n, K, T) ==
    [headers |-> IF "short" \in T THEN BaseColumns ELSE BaseColumns + K,
     rows |-> [t \in 0..(n - 1) |->
        [addr |-> IF "sameaddr" \in T /\ t = 1 THEN 0 ELSE t,
         prefs |-> IF "short" \in T THEN <<>>
                   ELSE [c \in 0..(K - 1) |->
                           IF "sentinel" \in T /\ t = 0 /\ c = 0 THEN ForbiddenPref
                           ELSE IF c = t % K THEN 1 ELSE 0]]]]

\* travel time the engine answers for a route from team a to team b
RouteTime(T, a, b, c) ==
    IF "sameaddr" \in T /\ {a, b} = {0, 1} THEN 0
    ELSE IF "near" \in T /\ {a, b} = {0, 1} THEN SamePlace
    ELSE IF "graded" \in T THEN 1 + ((a + b + c) % MaxDistance)
    ELSE IF "oneway" \in T /\ a > b THEN MaxDistance + 1
    ELSE MaxDistance

Faults(n, K, T) ==
    IF T \cap {"geofail", "routefail", "partyfail"} = {} THEN { [kind |-> "none"] }
    ELSE (IF "geofail" \in T THEN { [kind |-> "geo", t |-> t] : t \in 0..(n - 1) }
          ELSE {})
         \cup (IF "routefail" \in T
               THEN { [kind |-> "route", a |-> q[1], b |-> q[2], c |-> q[3]] :
                        q \in { r \in (0..(n - 1)) \X (0..(n - 1)) \X (0..(K - 1)) :
                                  r[1] # r[2] } }
               ELSE {})
         \cup (IF "partyfail" \in T
               THEN { [kind |-> "after", t |-> t] : t \in 0..(n - 1) }
               ELSE {})

EngineOf(n, K, T, fault) ==
    [route |-> [k \in (0..(n - 1)) \X (0..(n - 1)) \X (0..(K - 1)) |->
                   RouteTime(T, k[1], k[2], k[3])],
     after |-> [t \in 0..(n - 1) |-> 1 + (t % MaxDistance)],
     fault |-> fault]

NoValues == [assignment |-> {}, chef |-> {}, arc |-> {}, large_team |-> {},
             maxDuration |-> None]

InitRun(a, csv, eng) ==
    /\ args = a
    /\ csvfile = csv
    /\ engine = eng
    /\ pc = "read"
    /\ data = <<>>
    /\ distance_matrix = [route |-> <<>>, after |-> <<>>]
    /\ same_addr_team = <<>>
    /\ prob = None
    /\ solver_calls = 0
    /\ status = "NOT RUN"
    /\ sol = NoValues
    /\ coursedata = None
    /\ teamdata = None
    /\ team_distances = None
    /\ stdout = None

Init ==
    \E n \in 1..MaxTeams, K \in 1..MaxCourses, T \in ToggleSets :
        \E fault \in Faults(n, K, T) :
            InitRun(ArgsOf(K, T), CsvOf(n, K, T), EngineOf(n, K, T, fault))

\* the runs that differ in their preference columns and flags only
PrefToggleSets ==
    { {}, {"sentinel"}, {"nopref"}, {"sentinel", "nopref"}, {"meet"},
      {"meet", "sentinel"}, {"short"}, {"short", "nopref"} }

InitPrefs ==
    \E n \in 1..MaxTeams, K \in 1..MaxCourses, T \in PrefToggleSets :
        InitRun(ArgsOf(K, T), CsvOf(n, K, T), EngineOf(n, K, T, [kind |-> "none"]))

(***************************************************************************)
(* The uniform scenario: every route takes ScenarioDistance minutes, no    *)
(* afterparty, preferences ignored, unique meeting, distinct addresses,    *)
(* the max-distance term as the sole objective.                            *)
(***************************************************************************)
ScenarioToggles == { "nopref", "noavg" }

ScenarioShapes == { <<4, 2>>, <<6, 3>>, <<4, 3>>, <<5, 3>> }

ScenarioEngine(n, K) ==
    [route |-> [k \in (0..(n - 1)) \X (0..(n - 1)) \X (0..(K - 1)) |->
                   ScenarioDistance],
     after |-> [t \in 0..(n - 1) |-> 0],
     fault |-> [kind |-> "none"]]

InitScenario ==
    \E s \in ScenarioShapes :
        InitRun(ArgsOf(s[2], ScenarioToggles),
                CsvOf(s[1], s[2], ScenarioToggles),
                ScenarioEngine(s[1], s[2]))

(***************************************************************************)
(* The script, stage by stage.                                             *)
(***************************************************************************)
courses == 0..(args.num_courses - 1)
\* cli.py:306 (the indexes set at cli.py:237-238)
teams == DOMAIN data

Fail ==
    /\ pc' = "failed"
    /\ UNCHANGED <<args, csvfile, engine, data, distance_matrix, same_addr_team,
                   prob, solver_calls, status, sol, coursedata, teamdata,
                   team_distances, stdout>>

\* cli.py:196-209: the header check
HeaderOk(a, csv) ==
    ~ \/ (csv.headers # BaseColumns + a.num_courses /\ ~a.ignore_preferences)
      \/ (csv.headers # BaseColumns
            /\ csv.headers # BaseColumns + a.num_courses
            /\ a.ignore_preferences)

\* cli.py:211-224: the rows as the script keeps them
ParseRows(a, csv) ==
    [t \in DOMAIN csv.rows |->
        IF a.ignore_preferences
        THEN [addr |-> csv.rows[t].addr]
        ELSE [addr |-> csv.rows[t].addr,
              pref |-> [c \in 0..(a.num_courses - 1) |-> csv.rows[t].prefs[c]]]]

\* cli.py:191-224
ReadCsv ==
    /\ pc = "read"
    /\ IF ~HeaderOk(args, csvfile)
       THEN Fail
       ELSE /\ data' = ParseRows(args, csvfile)
            /\ pc' = "divisible"
            /\ UNCHANGED <<args, csvfile, engine, distance_matrix, same_addr_team,
                           prob, solver_calls, status, sol, coursedata, teamdata,
                           team_distances, stdout>>

\* weakened variant: the divisibility check is skipped
CheckDivisible_Skipped ==
    /\ pc = "divisible"
    /\ pc' = "geocode"
    /\ UNCHANGED <<args, csvfile, engine, data, distance_matrix,
                   same_addr_team, prob, solver_calls, status, sol,
                   coursedata, teamdata, team_distances, stdout>>

\* cli.py:227-231
CheckDivisible ==
    /\ pc = "divisible"
    /\ IF Cardinality(teams) % Cardinality(courses) # 0
       THEN Fail
       ELSE /\ pc' = "geocode"
            /\ UNCHANGED <<args, csvfile, engine, data, distance_matrix,
                           same_addr_team, prob, solver_calls, status, sol,
                           coursedata, teamdata, team_distances, stdout>>

\* cli.py:237-248 (get_geo exits when the address is not found, motis.py:107-110)
Geocode ==
    /\ pc = "geocode"
    /\ IF engine.fault.kind = "geo"
       THEN Fail
       ELSE /\ pc' = "routes"
            /\ UNCHANGED <<args, csvfile, engine, data, distance_matrix,
                           same_addr_team, prob, solver_calls, status, sol,
                           coursedata, teamdata, team_distances, stdout>>

\* cli.py:254-257
pairs ==
    { q \in teams \X teams :
        IF args.asymetric_distances THEN q[1] # q[2] ELSE q[1] < q[2] }

\* cli.py:259-273
GetDistances ==
    /\ pc = "routes"
    /\ IF engine.fault.kind = "route"
          /\ <<engine.fault.a, engine.fault.b>> \in pairs
       THEN Fail
       ELSE /\ distance_matrix' =
                 [distance_matrix EXCEPT !.route =
                    [k \in { r \in teams \X teams \X courses :
                               <<r[1], r[2]>> \in pairs
                               \/ (~args.asymetric_distances
                                     /\ <<r[2], r[1]>> \in pairs) } |->
                       IF <<k[1], k[2]>> \in pairs
                       THEN engine.route[<<k[1], k[2], k[3]>>]
                       ELSE engine.route[<<k[2], k[1], k[3]>>]]]
            /\ pc' = "afterparty"
            /\ UNCHANGED <<args, csvfile, engine, data, same_addr_team, prob,
                           solver_calls, status, sol, coursedata, teamdata,
                           team_distances, stdout>>

\* cli.py:278-289
AfterpartyDistances ==
    /\ pc = "afterparty"
    /\ IF engine.fault.kind = "after"
          /\ args.afterparty
       THEN Fail
       ELSE /\ distance_matrix' =
                 [route |-> [k \in { <<t, t, c>> : t \in teams, c \in courses }
                                |-> 0] @@ distance_matrix.route,
                  after |-> [t \in teams |->
                               IF args.afterparty THEN engine.after[t] ELSE 0]]
            /\ pc' = "addresses"
            /\ UNCHANGED <<args, csvfile, engine, data, same_addr_team, prob,
                           solver_calls, status, sol, coursedata, teamdata,
                           team_distances, stdout>>

\* cli.py:293-300
FindSameAddress ==
    /\ pc = "addresses"
    /\ same_addr_team' =
         [addr \in { data[t].addr : t \in teams } |->
            SortedSeq({ t \in teams : data[t].addr = addr },
                      Identity(teams))]
    /\ pc' = "build"
    /\ UNCHANGED <<args, csvfile, engine, data, distance_matrix, prob,
                   solver_calls, status, sol, coursedata, teamdata,
                   team_distances, stdout>>

\* the problem assembled by cli.py:305-579 from the command line a, the rows d,
\* the distance matrix dm and the address table sat
ProblemOf(a, d, dm, sat) ==
    [teams |-> DOMAIN d,
     groups |-> 0..((Cardinality(DOMAIN d) \div a.num_courses) - 1),
     courses |-> 0..(a.num_courses - 1),
     args |-> a, data |-> d,
     distance_matrix |-> dm,
     same_addr_team |-> sat]

Problem == ProblemOf(args, data, distance_matrix, same_addr_team)

\* cli.py:305-579: the division of cli.py:354 and the lookups of cli.py:551 can raise
BuildModel ==
    /\ pc = "build"
    /\ IF \/ (~args.ignore_preferences /\ max_pref(Problem) = 0)
          \/ \E k \in 1..Len(args.cook_incompatible) :
                Len(args.cook_incompatible) > 1
                /\ args.cook_incompatible[k] \notin teams
       THEN Fail
       ELSE /\ prob' = Some(Problem)
            /\ pc' = "solve"
            /\ UNCHANGED <<args, csvfile, engine, data, distance_matrix,
                           same_addr_team, solver_calls, status, sol, coursedata,
                           teamdata, team_distances, stdout>>

\* what the solver can answer on a problem with the feasible region S
Outcomes(p, S) ==
    IF S = {} THEN { [status |-> "INFEASIBLE", values |-> NoValues] }
    ELSE { [status |-> "OPTIMAL", values |-> x] : x \in Optimal(p, S) }
         \cup { [status |-> "FEASIBLE", values |-> x] : x \in S }
         \cup { [status |-> "TIMEOUT", values |-> NoValues] }

\* cli.py:582-603
Solve ==
    /\ pc = "solve"
    /\ \E o \in Outcomes(prob[1], Solutions(prob[1])) :
          /\ status' = o.status
          /\ sol' = o.values
    /\ solver_calls' = solver_calls + 1
    /\ pc' = "groupview"
    /\ UNCHANGED <<args, csvfile, engine, data, distance_matrix, same_addr_team,
                   prob, coursedata, teamdata, team_distances, stdout>>

\* cli.py:605-644
DecodeGroups ==
    /\ pc = "groupview"
    /\ coursedata' = GroupView(prob[1], sol)
    /\ pc' = "teamview"
    /\ UNCHANGED <<args, csvfile, engine, data, distance_matrix, same_addr_team,
                   prob, solver_calls, status, sol, teamdata, team_distances,
                   stdout>>

\* cli.py:645-725
DecodeTeams ==
    /\ pc = "teamview"
    /\ teamdata' = TeamView(prob[1], sol)
    /\ team_distances' = TeamDistances(prob[1], sol)
    /\ pc' = "print"
    /\ UNCHANGED <<args, csvfile, engine, data, distance_matrix, same_addr_team,
                   prob, solver_calls, status, sol, coursedata, stdout>>

\* cli.py:727-751
PrintJson ==
    /\ pc = "print"
    /\ stdout' = Some([teams |-> teamdata, courses |-> coursedata])
    /\ pc' = "done"
    /\ UNCHANGED <<args, csvfile, engine, data, distance_matrix, same_addr_team,
                   prob, solver_calls, status, sol, coursedata, teamdata,
                   team_distances>>

Next ==
    \/ ReadCsv
    \/ CheckDivisible
    \/ Geocode
    \/ GetDistances
    \/ AfterpartyDistances
    \/ FindSameAddress
    \/ BuildModel
    \/ Solve
    \/ DecodeGroups
    \/ DecodeTeams
    \/ PrintJson

Spec == Init /\ [][Next]_vars

SpecScenario == InitScenario /\ [][Next]_vars

SpecPrefs == InitPrefs /\ [][Next]_vars

(***************************************************************************)
(* Properties.                                                             *)
(***************************************************************************)
Solved == pc \in { "groupview", "teamview", "print", "done" }
HasSolution == Solved /\ status \in { "OPTIMAL", "FEASIBLE" }
GroupsDecoded == pc \in { "teamview", "print", "done" }
TeamsDecoded == pc \in { "print", "done" }
TeamCount == Cardinality(DOMAIN csvfile.rows)

IsScenario(n, K) ==
    /\ TeamCount = n
    /\ args = ArgsOf(K, ScenarioToggles)
    /\ engine = ScenarioEngine(n, K)

\* every decoded group of the roster has one cook and size - 1 guests
RosterGroupSize(size) ==
    \A c \in prob[1].courses, g \in prob[1].groups :
        /\ Len(coursedata[c][g].cook) = 1
        /\ Len(coursedata[c][g].guests) = size - 1

\* C1 as stated: in the uniform scenario with 6 teams and 3 courses the model is
\* feasible and solves to OPTIMAL, every group has 3 members (one chef, two
\* guests) and the optimal maxDuration is 2 * ScenarioDistance = 20.
C1_SixTeamsOptimalTwenty ==
    (IsScenario(6, 3) /\ GroupsDecoded) =>
        /\ status # "INFEASIBLE"
        /\ status = "OPTIMAL" =>
              /\ RosterGroupSize(3)
              /\ sol.maxDuration = Some(2 * ScenarioDistance)

\* C1 amended: in the uniform scenario with 6 teams and 3 courses the model is
\* infeasible; with 4 teams and 2 courses it is feasible, and when it is solved
\* to OPTIMAL every group has 2 members (one chef, one guest) and maxDuration
\* is 2 * ScenarioDistance = 20.
C1_UniformScenario ==
    /\ (IsScenario(6, 3) /\ Solved) => status = "INFEASIBLE"
    /\ (IsScenario(4, 2) /\ Solved) => status # "INFEASIBLE"
    /\ (IsScenario(4, 2) /\ GroupsDecoded /\ status = "OPTIMAL") =>
          /\ RosterGroupSize(2)
          /\ sol.maxDuration = Some(2 * ScenarioDistance)

C1_Witness ==
    /\ IsScenario(4, 2) /\ pc = "done" /\ status = "OPTIMAL"
    /\ sol.maxDuration = Some(2 * ScenarioDistance)

Listed(seq) == { seq[k] : k \in 1..Len(seq) }

\* C2: two distinct teams listed in --cook-incompatible are never guest and chef
\* of the same group, in either direction, in any feasible solution.
C2_IncompatibleBothWays ==
    HasSolution =>
        \A A \in Listed(args.cook_incompatible), B \in Listed(args.cook_incompatible) :
            A # B =>
                \A g \in prob[1].groups, c \in prob[1].courses :
                    ~(<<A, g, c>> \in sol.assignment /\ <<B, g, c>> \in sol.chef)

\* the problem the script builds from the same inputs with --ignore-preferences
\* given (flag = TRUE) or not given (flag = FALSE)
ProblemWithFlag(flag) ==
    LET a == [args EXCEPT !.ignore_preferences = flag]
    IN  ProblemOf(a, ParseRows(a, csvfile), distance_matrix, same_addr_team)

\* the feasible (assignment, chef, arc) solutions of a problem
Region(p) ==
    { [assignment |-> x.assignment, chef |-> x.chef, arc |-> x.arc] :
        x \in Solutions(p) }

\* both runs pass the header check and build their model
BothBuild ==
    /\ pc = "solve"
    /\ csvfile.headers = BaseColumns + args.num_courses
    /\ max_pref(ProblemWithFlag(FALSE)) # 0

HasSentinel ==
    \E t \in DOMAIN csvfile.rows, c \in 0..(args.num_courses - 1) :
        csvfile.rows[t].prefs[c] <= ForbiddenPref

C4_DecodeOnlyOnSuccess ==
    GroupsDecoded => status \in { "OPTIMAL", "FEASIBLE" }

NotDivisible == TeamCount % args.num_courses # 0

\* a travel-time lookup the run needs fails
LookupFails ==
    \/ engine.fault.kind = "geo"
    \/ /\ engine.fault.kind = "route"
       /\ IF args.asymetric_distances THEN engine.fault.a # engine.fault.b
          ELSE engine.fault.a < engine.fault.b
    \/ engine.fault.kind = "after" /\ args.afterparty

\* C5: when the team count is not divisible by the course count, or a needed
\* travel-time lookup fails, the run never gets to build the model: no variable
\* or constraint exists, the solver is not called and nothing is printed.
C5_FatalBeforeModel ==
    /\ NotDivisible =>
          /\ pc \in { "read", "divisible", "failed" }
          /\ prob = None /\ solver_calls = 0 /\ stdout = None
    /\ LookupFails =>
          /\ pc \in { "read", "divisible", "geocode", "routes", "afterparty", "failed" }
          /\ prob = None /\ solver_calls = 0 /\ stdout = None

C5_Witness ==
    /\ pc = "failed" /\ HeaderOk(args, csvfile)
    /\ NotDivisible \/ (LookupFails /\ engine.fault.kind = "route")

\* C6: in the roster decoded from a feasible solution every (course, group) has
\* exactly one cook, exactly one chef indicator among its members, and
\* courseCount - 1 guests.
C6_OneCookPerGroup ==
    (HasSolution /\ GroupsDecoded) =>
        /\ RosterGroupSize(args.num_courses)
        /\ \A c \in prob[1].courses, g \in prob[1].groups :
              Cardinality({ t \in prob[1].teams :
                              <<t, g, c>> \in sol.assignment
                              /\ <<t, g, c>> \in sol.chef }) = 1

C6_Witness ==
    /\ HasSolution /\ pc = "done"
    /\ args.num_courses >= 2 /\ Cardinality(prob[1].groups) >= 2

\* the active arcs of team t in course c
CourseArcs(t, c) == { a \in sol.arc : a[4] = t /\ a[1] = c }

\* C7: every team has exactly one active arc per course, chained from its own
\* location; the decoded tour of every team has one leg per course, in course order,
\* and one afterparty leg; leg 0 starts at the team's own location, every leg
\* ends at the chef of the group the team is assigned to in that course, and
\* every later leg starts where the previous one ended.
C7_TourChains ==
    /\ HasSolution =>
          \A t \in prob[1].teams, c \in prob[1].courses :
              /\ Cardinality(CourseArcs(t, c)) = 1
              /\ \A a \in CourseArcs(t, c) :
                    /\ c = 0 => a[2] = t
                    /\ c > 0 => \A b \in CourseArcs(t, c - 1) : a[2] = b[3]
    /\ (HasSolution /\ TeamsDecoded) =>
        \A t \in prob[1].teams :
            LET tour == teamdata[t].tour IN
            /\ Len(tour) = args.num_courses
            /\ Len(teamdata[t].afterparty_duration) = 1
            /\ \A k \in 1..Len(tour) :
                  /\ tour[k].gang = k - 1
                  /\ <<t, tour[k].group, tour[k].gang>> \in sol.assignment
                  /\ <<tour[k].to, tour[k].group, tour[k].gang>> \in sol.chef
                  /\ k = 1 => tour[k].from = t
                  /\ k > 1 => tour[k].from = tour[k - 1].to

C7_Witness ==
    /\ HasSolution /\ pc = "done" /\ args.num_courses = MaxCourses
    /\ \E t \in prob[1].teams : teamdata[t].tour[2].to = t

\* teams t1 and t2 share a group in course c
Together(t1, t2, c) ==
    \E g \in prob[1].groups :
        <<t1, g, c>> \in sol.assignment /\ <<t2, g, c>> \in sol.assignment

\* C8: without --can-meet-again no two distinct teams share a group in two
\* different courses, whatever the group indices.
C8_MeetOnlyOnce ==
    (HasSolution /\ ~args.can_meet_again) =>
        \A t1 \in prob[1].teams, t2 \in prob[1].teams :
            \A c1 \in prob[1].courses, c2 \in prob[1].courses :
                (t1 # t2 /\ c1 # c2) => ~(Together(t1, t2, c1) /\ Together(t1, t2, c2))

C8_Witness ==
    /\ HasSolution /\ ~args.can_meet_again /\ pc = "done"
    /\ args.num_courses >= 2 /\ Cardinality(prob[1].groups) >= 2

\* C9: with --large-teams L > 0 exactly L teams are large and no two distinct
\* large teams share a group in any course.
C9_LargeTeamsApart ==
    (HasSolution /\ args.large_teams > 0) =>
        /\ Cardinality(sol.large_team) = args.large_teams
        /\ \A t1 \in sol.large_team, t2 \in sol.large_team :
              t1 # t2 => \A c \in prob[1].courses : ~Together(t1, t2, c)

C9_Witness ==
    /\ HasSolution /\ pc = "done"
    /\ args.large_teams > 1 /\ Cardinality(sol.large_team) > 1

\* C10: every team is in exactly one group in every course, is chef in exactly
\* one (group, course), only in a group it is assigned to, and is a guest in
\* the other courseCount - 1 courses.
C10_HostOnceGuestOtherwise ==
    HasSolution =>
        \A t \in prob[1].teams :
            /\ \A c \in prob[1].courses :
                  Cardinality({ g \in prob[1].groups : <<t, g, c>> \in sol.assignment }) = 1
            /\ Cardinality({ k \in sol.chef : k[1] = t }) = 1
            /\ \A k \in sol.chef : k[1] = t => k \in sol.assignment
            /\ Cardinality({ c \in prob[1].courses :
                               \E g \in prob[1].groups :
                                  <<t, g, c>> \in sol.assignment
                                  /\ <<t, g, c>> \notin sol.chef })
                 = args.num_courses - 1

C10_Witness ==
    /\ HasSolution /\ pc = "done" /\ args.num_courses = MaxCourses

\* the (team, course) entries of the csv file at the forbidden sentinel
Forbidden ==
    { e \in (DOMAIN csvfile.rows) \X (0..(args.num_courses - 1)) :
        /\ e[2] \in DOMAIN csvfile.rows[e[1]].prefs
        /\ csvfile.rows[e[1]].prefs[e[2]] <= ForbiddenPref }

C12_TotalWithinMaxDuration ==
    (HasSolution /\ ~args.ignore_max_dist) =>
        /\ \A t \in prob[1].teams :
              SumDistance(prob[1], sol, t) <= sol.maxDuration[1]
        /\ TeamsDecoded =>
              \A t \in prob[1].teams : team_distances[t] <= sol.maxDuration[1]

\* the duration the distance matrix holds for arc a
ArcDuration(a) == distance_matrix.route[<<a[2], a[3], a[1]>>]

\* C13 as stated: without --can-stay no active arc has a duration at or below
\* the same-place threshold.
C13_NoShortArc ==
    (HasSolution /\ ~args.can_stay) =>
        \A a \in sol.arc : ArcDuration(a) > SamePlace

\* C13 amended: without --can-stay no active arc between two different
\* locations has a duration at or below the same-place threshold; the arc
\* from a location to itself is exempt, and every team that cooks the first
\* course has it active with duration 0.
C13_NoShortHopBetweenTeams ==
    (HasSolution /\ ~args.can_stay) =>
        /\ \A a \in sol.arc : a[2] # a[3] => ArcDuration(a) > SamePlace
        /\ \A k \in sol.chef :
              k[3] = 0 => /\ <<0, k[1], k[1], k[1], k[2]>> \in sol.arc
                          /\ distance_matrix.route[<<k[1], k[1], 0>>] = 0

C13_Witness ==
    /\ HasSolution /\ ~args.can_stay /\ pc = "done"
    /\ args.num_courses >= 2
    /\ \E i \in prob[1].teams, j \in prob[1].teams :
          i # j /\ distance_matrix.route[<<i, j, 0>>] <= SamePlace

\* the teams whose csv row gives address addr
TeamsAt(addr) == { t \in DOMAIN csvfile.rows : csvfile.rows[t].addr = addr }

\* the teams of S that are chef in course c
HostsAmong(S, c) == { k[1] : k \in { h \in sol.chef : h[1] \in S /\ h[3] = c } }

\* C14: of the n >= 2 teams sharing an address, at most
\* max(1, ceil(n / courseCount)) are chef in the same course; when
\* n <= courseCount no two of them are chef in the same course.
C14_SameAddressCap ==
    HasSolution =>
        \A t \in prob[1].teams, c \in prob[1].courses :
            LET S == TeamsAt(csvfile.rows[t].addr)
                hosts == Cardinality(HostsAmong(S, c))
            IN  Cardinality(S) >= 2 =>
                  /\ hosts <= 1 \/ (hosts - 1) * args.num_courses < Cardinality(S)
                  /\ Cardinality(S) <= args.num_courses => hosts <= 1

C14_Witness ==
    /\ HasSolution /\ pc = "done"
    /\ args.num_courses >= 2 /\ Cardinality(prob[1].groups) >= 2
    /\ \E t \in prob[1].teams :
          /\ Cardinality(TeamsAt(csvfile.rows[t].addr)) >= 2
          /\ \A u \in TeamsAt(csvfile.rows[t].addr) : \E k \in sol.chef : k[1] = u

\* unique meeting is on, there are at least two courses, and fewer teams
\* than the square of the course count
TooFewTeams ==
    /\ ~args.can_meet_again
    /\ args.num_courses >= 2
    /\ TeamCount < args.num_courses * args.num_courses

\* C15: with unique meeting on and at least two courses, a solution exists
\* only if teamCount >= courseCount squared; with fewer teams the coverage,
\* group-size and unique-meeting constraints alone have no solution and the
\* solver reports the model infeasible.
C15_NeedsCoursesSquared ==
    /\ (HasSolution /\ ~args.can_meet_again /\ args.num_courses >= 2) =>
          TeamCount >= args.num_courses * args.num_courses
    /\ (TooFewTeams /\ prob # None) =>
          /\ Assignments(prob[1]) = {}
          /\ Solved => (status = "INFEASIBLE" /\ sol = NoValues)

C15_Witness ==
    /\ TooFewTeams /\ pc = "done" /\ status = "INFEASIBLE"
    /\ TeamCount = args.num_courses /\ args.num_courses = MaxCourses

====
